---- MODULE Spec2Model ----
(***************************************************************************)
(* The ingredient deduplication engine of rokumeals                        *)
(* (src/merge_duplicates.py, merge_duplicate_ingredients) over a property  *)
(* graph of Recipe, Ingredient and Category nodes.                         *)
(*                                                                         *)
(* An Ingredient node is identified by its ingredient_id                   *)
(* (src/mbg_app/models.py:43 declares it unique_index).  Relationships are *)
(* bags: contains[<<r, i>>] is the number of CONTAINS relationships from   *)
(* Recipe r to Ingredient i, so that a duplicate relationship is a count   *)
(* of 2.  A name is a sequence of code points, compared as Python compares *)
(* str values.  An embedding is opaque to the merge: the vector first      *)
(* stored on ingredient i is written i, and NULL is the absent property.   *)
(*                                                                         *)
(* The semantic search (src/mbg_app/simple_semantic_search.py) reads the   *)
(* labelled nodes and their embedding vectors: store maps <<label, id>> to *)
(* a vector of small integers, a similarity is a fixed-point cosine, and a *)
(* search call is one action whose arguments and result are kept in        *)
(* response.                                                               *)
(***************************************************************************)
EXTENDS Integers, Sequences, FiniteSets, TLC

\* ------------------------------------------------------------------ bounds

MaxIngredients == 4
MaxRecipes == 1
MaxCategories == 1
\* At most this many relationships and embeddings in the initial graph.
MaxItems == 2
\* At most this many interruptions of a merge run (specification SpecRetry).
MaxCrashes == 1
\* At most this many Ingredient nodes in the graph of an interrupted run.
MaxRetryIngredients == 3
\* At most this many Ingredient nodes in the graph of two concurrent runs.
MaxConcurrentIngredients == 2
\* Node ids per label, and nodes in all, in the store the search reads.
MaxNodeIds == 2
MaxStoreNodes == 2
\* The largest limit argument of a search.
MaxLimit == 2
\* Items in the JSON file of push_vectors, its largest --batch-size, and the
\* nodes in the store it writes to.
MaxPushItems == 3
MaxBatchSize == 2
MaxPushNodes == 1
\* Rows in a CSV file of nodes and of relationships, and import steps made.
MaxRows == 3
MaxRelRows == 2
MaxImports == 3

\* ---------------------------------------------------------------- universe

IngredientIds == 1..MaxIngredients
RecipeIds == 1..MaxRecipes
CategoryIds == 1..MaxCategories

NULL == 0
Embeddings == IngredientIds

\* "A", "a" and "B" as code points.
Names == {<<65>>, <<97>>, <<66>>}
CategoryNames == {"Unknown", "", "Liquor"}

VARIABLES
    graph,              \* the store: [ingredients, embedding, contains,
                        \*   classified, otherRels]
                        \*   ingredients: ingredient_ids of the Ingredient nodes
                        \*   embedding:   i.embedding, NULL when absent
                        \*   contains:    bag of (Recipe)-[:CONTAINS]->(Ingredient)
                        \*   classified:  bag of (Ingredient)-[:CLASSIFIED_AS]->(Category)
                        \*   otherRels:   per ingredient, the relationships that
                        \*                neither transfer query matches (another
                        \*                type, or an end node without the Recipe
                        \*                or Category label)
    name,               \* i.name
    category,           \* i.category
    pc,                 \* position of the merge run
    merge_operations,   \* the planned operations
    op,                 \* index of the operation being executed
    success_count,
    failed,             \* indices of the operations reported "Failed to merge"
    original,           \* the graph at construction
    start,              \* the graph when the current run started
    pre,                \* the graph when the current operation started
    crashes,            \* interruptions so far
    other,              \* a second merge run on the same graph:
                        \*   [pc, merge_operations, op]
    store,              \* the nodes the semantic search reads: per
                        \*   <<label, id>> of a node its embedding vector,
                        \*   NoEmbedding when the node has none
    response,           \* the search call made, its arguments, whether a
                        \*   query of it found the store unreachable, and
                        \*   what it returned
    push,               \* a push_vectors command: its position, its input
                        \*   and the batches it sent
    imp,                \* the store as the import command sees it: nodes
                        \*   and relationships as bags, and the imports made
    norm,               \* a normalize_ingredients command: its position
                        \*   and its planned updates
    enrich              \* an enrich_ingredient request: the node, the
                        \*   lookup result and what was saved

vars == <<graph, name, category, pc, merge_operations, op, success_count,
          failed, original, start, pre, crashes, other, store, response,
          push, imp, norm, enrich>>

toolVars == <<push, imp, norm, enrich>>

\* ------------------------------------------------------------ pure helpers

\* Cypher toLower / Python str.lower on a sequence of code points.
ToLower(s) == [k \in DOMAIN s |-> IF s[k] \in 65..90 THEN s[k] + 32 ELSE s[k]]

\* Python's < on str: lexicographic on code points, a proper prefix first.
RECURSIVE StrLess(_, _)
StrLess(s, t) ==
    IF t = <<>> THEN FALSE
    ELSE IF s = <<>> THEN TRUE
    ELSE IF Head(s) # Head(t) THEN Head(s) < Head(t)
    ELSE StrLess(Tail(s), Tail(t))

\* The orders in which the store may return the Ingredient nodes: the
\* duplicate query has no ORDER BY, so collect() and the rows follow the
\* store's scan order, which is any permutation.
ScanOrders ==
    {o \in [1..MaxIngredients -> IngredientIds] :
        \A a, b \in 1..MaxIngredients : a # b => o[a] # o[b]}

\* --------------------------------------------- duplicate detection and plan

\* A duplicate query that groups on the category.
LowerNameOfCategory(i) == IF category[i] = "Unknown" THEN <<117>> ELSE <<108>>

\* toLower(i.name) as lower_name: the grouping key of the duplicate query.
LowerName(i) == ToLower(name[i])

\* The rows of the duplicate query: per lower_name the collected members, in
\* scan order, kept when size(ingredients) > 1.
RECURSIVE DuplicateRows(_)
DuplicateRows(scan) ==
    IF scan = <<>> THEN <<>>
    ELSE LET k == LowerName(Head(scan))
             members == SelectSeq(scan, LAMBDA i : LowerName(i) = k)
             rest == SelectSeq(scan, LAMBDA i : LowerName(i) # k)
         IN  (IF Len(members) > 1 THEN <<members>> ELSE <<>>)
                 \o DuplicateRows(rest)

\* MATCH (i:Ingredient) in scan order o.
Scan(ings, o) == SelectSeq(o, LAMBDA i : i \in ings)

findDuplicateGroups(ings, o) == DuplicateRows(Scan(ings, o))

\* x['category'] == 'Unknown': the first component of the sort key.
UnknownCategory(i) == category[i] = "Unknown"

\* A key that puts the ingredient used by fewer recipes first: an ascending
\* sort on the recipe count where a descending one was meant.
RecipeCount(x) == Cardinality({r \in RecipeIds : graph.contains[<<r, x>>] > 0})

KeyLessByRecipeCount(x, y) ==
    \/ RecipeCount(x) < RecipeCount(y)
    \/ /\ RecipeCount(x) = RecipeCount(y)
       /\ \/ ~UnknownCategory(x) /\ UnknownCategory(y)
          \/ /\ UnknownCategory(x) = UnknownCategory(y)
             /\ StrLess(name[x], name[y])

\* Python's < on the key tuples (x['category'] == 'Unknown', x['name']),
\* with False < True.
KeyLess(x, y) ==
    \/ ~UnknownCategory(x) /\ UnknownCategory(y)
    \/ /\ UnknownCategory(x) = UnknownCategory(y)
       /\ StrLess(name[x], name[y])

\* One insertion of a stable sort: x goes before the first element whose key
\* is greater, so after every element with an equal key.
RECURSIVE Insert(_, _)
Insert(x, s) ==
    IF s = <<>> THEN <<x>>
    ELSE IF KeyLess(x, Head(s)) THEN <<x>> \o s
    ELSE <<Head(s)>> \o Insert(x, Tail(s))

\* sorted(ingredients, key=...): Python's sort is stable.
RECURSIVE sorted_ingredients(_)
sorted_ingredients(members) ==
    IF members = <<>> THEN <<>>
    ELSE Insert(members[Len(members)],
                sorted_ingredients(SubSeq(members, 1, Len(members) - 1)))

best_candidate(members) == sorted_ingredients(members)[1]

\* A slice that starts one element late.
duplicates_to_merge_late(members) == Tail(Tail(sorted_ingredients(members)))

\* A slice that takes the whole sorted list, the best candidate included.
duplicates_to_merge_all(members) == sorted_ingredients(members)

duplicates_to_merge(members) == Tail(sorted_ingredients(members))

\* The operations appended for one row.
RowOperations(members) ==
    LET dups == duplicates_to_merge(members)
    IN  [k \in 1..Len(dups) |->
            [keep_id |-> best_candidate(members), merge_id |-> dups[k],
             name |-> LowerName(members[1])]]

RECURSIVE PlanRows(_)
PlanRows(rows) ==
    IF rows = <<>> THEN <<>>
    ELSE RowOperations(Head(rows)) \o PlanRows(Tail(rows))

\* merge_operations as built from the query's rows.
PlanOperations(ings, o) == PlanRows(findDuplicateGroups(ings, o))

\* ------------------------------------------------------ the four merge steps

\* A transfer that creates the relationship without looking for an existing
\* one.
ContainsExistingIgnored(g, r, keep) == TRUE

\* A step 1 whose MATCH of the old relationships is not bound to the loser:
\* the CONTAINS relationships of every other ingredient go to the survivor.
TransferContainsUnbound(g, keep, merge) ==
    IF keep \notin g.ingredients \/ merge \notin g.ingredients THEN g
    ELSE [g EXCEPT !.contains =
            [e \in DOMAIN g.contains |->
                IF e[2] # keep THEN 0
                ELSE IF \E i \in IngredientIds : g.contains[<<e[1], i>>] > 0
                THEN 1 ELSE 0]]

\* OPTIONAL MATCH (recipe)-[existing:CONTAINS]->(keep) found nothing.
ContainsExistingIsNull(g, r, keep) == g.contains[<<r, keep>>] = 0

\* A step 1 that deletes the old relationships and creates none.
TransferContainsDropping(g, keep, merge) ==
    IF keep \notin g.ingredients \/ merge \notin g.ingredients THEN g
    ELSE [g EXCEPT !.contains =
            [e \in DOMAIN g.contains |->
                IF e[2] = merge THEN 0 ELSE g.contains[e]]]

\* Step 1.  One row per CONTAINS relationship r from a Recipe to the
\* duplicate; the reading clauses see the graph before the query's writes.
\* Per row a relationship to keep is created when existing IS NULL, then r
\* is deleted.  No row when either node is missing.
TransferContains(g, keep, merge) ==
    IF keep \notin g.ingredients \/ merge \notin g.ingredients THEN g
    ELSE LET created == [r \in RecipeIds |->
                            IF ContainsExistingIsNull(g, r, keep)
                            THEN g.contains[<<r, merge>>] ELSE 0]
             withNew == [e \in DOMAIN g.contains |->
                            IF e[2] = keep
                            THEN g.contains[e] + created[e[1]]
                            ELSE g.contains[e]]
         IN  [g EXCEPT !.contains =
                [e \in DOMAIN g.contains |->
                    IF e[2] = merge THEN 0 ELSE withNew[e]]]

ClassifiedExistingIgnored(g, keep, c) == TRUE

\* OPTIONAL MATCH (keep)-[existing:CLASSIFIED_AS]->(category) found nothing.
ClassifiedExistingIsNull(g, keep, c) == g.classified[<<keep, c>>] = 0

\* Step 2.  The same shape for the outgoing CLASSIFIED_AS relationships.
TransferClassified(g, keep, merge) ==
    IF keep \notin g.ingredients \/ merge \notin g.ingredients THEN g
    ELSE LET created == [c \in CategoryIds |->
                            IF ClassifiedExistingIsNull(g, keep, c)
                            THEN g.classified[<<merge, c>>] ELSE 0]
             withNew == [e \in DOMAIN g.classified |->
                            IF e[1] = keep
                            THEN g.classified[e] + created[e[2]]
                            ELSE g.classified[e]]
         IN  [g EXCEPT !.classified =
                [e \in DOMAIN g.classified |->
                    IF e[1] = merge THEN 0 ELSE withNew[e]]]

\* A transfer that does not look at keep.embedding.
EmbeddingTransferAlways(g, keep, merge) == g.embedding[merge] # NULL

\* WHEN keep.embedding IS NULL AND duplicate.embedding IS NOT NULL
EmbeddingTransferDue(g, keep, merge) ==
    g.embedding[keep] = NULL /\ g.embedding[merge] # NULL

\* Step 3.
TransferEmbedding(g, keep, merge) ==
    IF keep \notin g.ingredients \/ merge \notin g.ingredients THEN g
    ELSE IF EmbeddingTransferDue(g, keep, merge)
         THEN [g EXCEPT !.embedding[keep] = g.embedding[merge]]
         ELSE g

RECURSIVE SumOver(_, _)
SumOver(f, S) ==
    IF S = {} THEN 0
    ELSE LET x == CHOOSE y \in S : TRUE IN f[x] + SumOver(f, S \ {x})

\* The relationships attached to Ingredient i, of any type and direction.
Degree(g, i) ==
    SumOver(g.contains, {e \in DOMAIN g.contains : e[2] = i})
    + SumOver(g.classified, {e \in DOMAIN g.classified : e[1] = i})
    + g.otherRels[i]

\* DETACH DELETE: the node goes whatever is attached to it.
DeleteOutcomeDetach(g, merge) ==
    IF merge \notin g.ingredients THEN "missing" ELSE "deleted"

\* Step 4: what DELETE duplicate does.  The store refuses to delete a node
\* that still has relationships (the query raises); no row when the node is
\* missing.
DeleteOutcome(g, merge) ==
    IF merge \notin g.ingredients THEN "missing"
    ELSE IF Degree(g, merge) > 0 THEN "raised"
    ELSE "deleted"

\* The graph after step 4: a deleted node is gone with its properties.
DeleteDuplicate(g, merge) ==
    IF DeleteOutcome(g, merge) = "deleted"
    THEN [g EXCEPT !.ingredients = @ \ {merge}, !.embedding[merge] = NULL]
    ELSE g

\* One whole operation of the loop, and the loop.
MergeOne(g, o) ==
    DeleteDuplicate(
        TransferEmbedding(
            TransferClassified(
                TransferContains(g, o.keep_id, o.merge_id),
                o.keep_id, o.merge_id),
            o.keep_id, o.merge_id),
        o.merge_id)

RECURSIVE MergeAll(_, _)
MergeAll(g, ops) ==
    IF ops = <<>> THEN g ELSE MergeAll(MergeOne(g, Head(ops)), Tail(ops))

\* ------------------------------------------------------------------- state

\* A relationship or an embedding of an initial graph: <<kind, a, b>>.
Slots(ings) ==
    ({"contains"} \X RecipeIds \X ings)
    \cup ({"classified"} \X ings \X CategoryIds)
    \cup ({"other"} \X ings \X {0})
    \cup ({"embedding"} \X ings \X {0})

Bit(S, x) == IF x \in S THEN 1 ELSE 0

\* The graph of the Ingredient nodes ings with exactly the relationships and
\* embeddings S.
GraphOf(ings, S) ==
    [ingredients |-> ings,
     embedding |-> [i \in IngredientIds |->
                      IF <<"embedding", i, 0>> \in S THEN i ELSE NULL],
     contains |-> [e \in RecipeIds \X IngredientIds |->
                      Bit(S, <<"contains", e[1], e[2]>>)],
     classified |-> [e \in IngredientIds \X CategoryIds |->
                      Bit(S, <<"classified", e[1], e[2]>>)],
     otherRels |-> [i \in IngredientIds |-> Bit(S, <<"other", i, 0>>)]]

\* The graphs a run may start from: one to MaxIngredients Ingredient nodes,
\* no pair of nodes connected twice (the import connects a pair only when
\* not is_connected), and at most MaxItems relationships and embeddings.
InitialGraphs ==
    UNION {{GraphOf(1..n, {f[k] : k \in 1..MaxItems} \cap Slots(1..n)) :
                f \in [1..MaxItems -> Slots(1..n) \cup {<<"none", 0, 0>>}]} :
           n \in 1..MaxIngredients}

EmptyGraph == GraphOf(IngredientIds, {})

\* Ingredient ids are opaque and the scan order is free, so of the graphs
\* that differ only by a renaming of the ingredient ids one is kept: the
\* nodes are listed by name, then category, then by what is attached.
CategoryRank(c) == IF c = "Unknown" THEN 2 ELSE IF c = "" THEN 1 ELSE 0

AttachedCode(g, i) ==
    (IF g.embedding[i] # NULL THEN 1 ELSE 0)
    + 2 * g.otherRels[i]
    + 4 * SumOver([r \in RecipeIds |-> 2^(r - 1) * g.contains[<<r, i>>]],
                  RecipeIds)
    + 4 * 2^MaxRecipes * SumOver([c \in CategoryIds |->
                        2^(c - 1) * g.classified[<<i, c>>]], CategoryIds)

NodeLeq(g, i, j) ==
    \/ StrLess(name[i], name[j])
    \/ /\ name[i] = name[j]
       /\ \/ CategoryRank(category[i]) < CategoryRank(category[j])
          \/ /\ category[i] = category[j]
             /\ AttachedCode(g, i) <= AttachedCode(g, j)

Canonical(g) ==
    \A i, j \in g.ingredients : i < j => NodeLeq(g, i, j)

\* ------------------------------------------------------------------ search
\* src/mbg_app/simple_semantic_search.py.  A similarity is a fixed-point
\* number: the integer x stands for x / Scale.

Scale == 10000

Labels == {"Recipe", "Ingredient", "Category"}
NodeTypes == {"recipe", "ingredient", "category", "all"}
NodeIds == 1..MaxNodeIds

\* n.embedding of a node without the property.
NoEmbedding == <<>>

\* Stored vectors: three directions, an opposite one, and one of another
\* length.
StoredVectors == {<<1, 0>>, <<0, 1>>, <<1, 1>>, <<-1, 0>>, <<1, 0, 0>>}
QueryVectors == {<<1, 0>>, <<1, 1>>}
\* 0, the default 0.5 and 0.7071.
Thresholds == {0, Scale \div 2, 7071}
Limits == 0..MaxLimit

\* str.capitalize on the node_type argument.
Capitalize(node_type) ==
    CASE node_type = "recipe" -> "Recipe"
      [] node_type = "ingredient" -> "Ingredient"
      [] node_type = "category" -> "Category"
      [] node_type = "all" -> "All"

\* The largest s in lo..hi with s * s <= n.
RECURSIVE ISqrtIn(_, _, _)
ISqrtIn(n, lo, hi) ==
    IF lo = hi THEN lo
    ELSE LET mid == (lo + hi + 1) \div 2
         IN  IF mid * mid <= n THEN ISqrtIn(n, mid, hi)
             ELSE ISqrtIn(n, lo, mid - 1)

Dot(a, b) == SumOver([k \in DOMAIN a |-> a[k] * b[k]], DOMAIN a)

\* gds.similarity.cosine on two vectors of one length: dot / (|a| |b|).
cosine(a, b) ==
    LET d == Dot(a, b)
        m == ISqrtIn((Scale * Scale * d * d) \div (Dot(a, a) * Dot(b, b)),
                     0, Scale)
    IN  IF d < 0 THEN 0 - m ELSE m

\* round(float(score), 3): to the nearest thousandth, a half to the even one.
Round3(x) ==
    LET milli == Scale \div 1000
        q == x \div milli
        r == x % milli
    IN  IF 2 * r < milli THEN milli * q
        ELSE IF 2 * r > milli THEN milli * (q + 1)
        ELSE IF q % 2 = 0 THEN milli * q
        ELSE milli * (q + 1)

\* MATCH (n:Label) WHERE n.embedding IS NOT NULL.
WithEmbedding(st, label) ==
    {n \in DOMAIN st : n[1] = label /\ st[n] # NoEmbedding}

\* gds.similarity.cosine raises on vectors of different lengths, and the
\* query projects it on every node that has an embedding.
CosineRaises(st, label, query_embedding) ==
    \E n \in WithEmbedding(st, label) : Len(st[n]) # Len(query_embedding)

similarity(st, n, query_embedding) == cosine(query_embedding, st[n])

\* WHERE similarity >= $threshold.
Matched(st, label, query_embedding, threshold) ==
    {n \in WithEmbedding(st, label) :
        similarity(st, n, query_embedding) >= threshold}

\* ORDER BY similarity DESC: every order of the rows in which no row comes
\* before a row of greater similarity; rows of equal similarity come in the
\* order the store happens to produce.
OrderedRows(st, M, query_embedding) ==
    {rows \in [1..Cardinality(M) -> M] :
        /\ \A a, b \in 1..Cardinality(M) : a # b => rows[a] # rows[b]
        /\ \A a, b \in 1..Cardinality(M) :
              a < b => similarity(st, rows[a], query_embedding)
                         >= similarity(st, rows[b], query_embedding)}

LimitRowsAll(rows, limit) == rows

\* LIMIT $limit.
LimitRows(rows, limit) ==
    SubSeq(rows, 1, IF limit < Len(rows) THEN limit ELSE Len(rows))

\* Lines 127-179: one record per row.
formatted_results(st, rows, node_type, query_embedding) ==
    [k \in DOMAIN rows |->
        [type |-> node_type,
         id |-> rows[k][2],
         similarity_score |->
             Round3(similarity(st, rows[k], query_embedding))]]

\* What a call returns: the list, and whether an exception was caught and
\* logged on the way (lines 183-187, 212-214).  No call raises.
Returned(list, caught, ran) ==
    [results |-> list, logged |-> caught, searched |-> ran, raised |-> FALSE]

\* search_by_embedding, lines 53-187: the values it can return.  up is
\* whether the store answers the query.
search_by_embedding(st, up, query_embedding, node_type, limit, threshold) ==
    LET label == Capitalize(node_type)
    IN  IF ~up \/ CosineRaises(st, label, query_embedding)
        THEN {Returned(<<>>, TRUE, TRUE)}
        ELSE {Returned(formatted_results(st, LimitRows(rows, limit),
                                         node_type, query_embedding),
                       FALSE, TRUE) :
                rows \in OrderedRows(st,
                            Matched(st, label, query_embedding, threshold),
                            query_embedding)}

\* MATCH (n:Label {<type>_id: $ref_id}) RETURN n.embedding.
ReferenceRows(st, item_id, item_type) ==
    {n \in DOMAIN st : n[1] = Capitalize(item_type) /\ n[2] = item_id}

find_similar_always(st, up1, up2, item_id, item_type, limit, threshold) ==
    IF ~up1 THEN {Returned(<<>>, TRUE, FALSE)}
    ELSE IF ReferenceRows(st, item_id, item_type) = {}
    THEN {Returned(<<>>, FALSE, FALSE)}
    ELSE UNION {search_by_embedding(st, up2, st[n], item_type, limit,
                                    threshold) :
                  n \in ReferenceRows(st, item_id, item_type)}

\* find_similar_items, lines 190-214.  up1 and up2 are whether the store
\* answers the lookup and the search.
find_similar_items(st, up1, up2, item_id, item_type, limit, threshold) ==
    IF ~up1 THEN {Returned(<<>>, TRUE, FALSE)}
    ELSE IF \A n \in ReferenceRows(st, item_id, item_type) :
                st[n] = NoEmbedding
    THEN {Returned(<<>>, FALSE, FALSE)}
    ELSE UNION {search_by_embedding(st, up2, st[n], item_type, limit,
                                    threshold) :
                  n \in ReferenceRows(st, item_id, item_type)}

NodeKeys == Labels \X NodeIds

\* The stores a search may read: at most MaxStoreNodes nodes, each with an
\* embedding or without.
Stores ==
    UNION {[S -> StoredVectors \cup {NoEmbedding}] :
             S \in {T \in SUBSET NodeKeys : Cardinality(T) <= MaxStoreNodes}}

EmptyStore == [n \in {} |-> NoEmbedding]

NoResponse == [call |-> "none"]

\* ------------------------------------------------------------ push_vectors
\* src/mbg_app/management/commands/push_vectors.py.  An id stands for the
\* string str(item['id']).

\* The "type" of an item of the file: two that the command knows once
\* lower-cased, and one it does not.
PushTypes == {"recipe", "Ingredient", "menu"}
PushItems ==
    [type : PushTypes, id : NodeIds, embedding : {NoEmbedding, <<0, 1>>}]
PushData == UNION {[1..n -> PushItems] : n \in 0..MaxPushItems}
BatchSizes == 1..MaxBatchSize

\* str.lower on the type of an item.
Lower(type) == IF type = "Ingredient" THEN "ingredient" ELSE type

\* The keys of clean_batches, in the order of the dict.
CleanTypes == <<"recipe", "ingredient", "category">>

\* Lines 77-85: the label of a type.
PushLabel(t) == Capitalize(CleanTypes[t])

\* Lines 48-65: the items with an embedding and a known type, per type.
clean_batches(data) ==
    [t \in DOMAIN CleanTypes |->
        LET kept == SelectSeq(data, LAMBDA item :
                        /\ item.embedding # NoEmbedding
                        /\ Lower(item.type) = CleanTypes[t])
        IN  [j \in DOMAIN kept |->
                [id |-> kept[j].id, vector |-> kept[j].embedding]]]

\* Lines 70-72: the next type after t that has items, 0 when there is none.
NextType(clean, t) ==
    IF \E u \in DOMAIN clean : u > t /\ clean[u] # <<>>
    THEN CHOOSE u \in DOMAIN clean :
            /\ u > t /\ clean[u] # <<>>
            /\ \A w \in DOMAIN clean : (w > t /\ clean[w] # <<>>) => u <= w
    ELSE 0

BatchOfOverlapping(items, i, batch_size) ==
    SubSeq(items, i + 1,
           IF i + batch_size + 1 < Len(items) THEN i + batch_size + 1
           ELSE Len(items))

\* Line 100: items[i:i+batch_size].
BatchOf(items, i, batch_size) ==
    SubSeq(items, i + 1,
           IF i + batch_size < Len(items) THEN i + batch_size
           ELSE Len(items))

RECURSIVE ApplyBatchMerge(_, _, _)
ApplyBatchMerge(st, label, batch) ==
    IF batch = <<>> THEN st
    ELSE ApplyBatchMerge((<<label, Head(batch).id>> :> Head(batch).vector)
                            @@ st,
                         label, Tail(batch))

\* Lines 88-93: UNWIND $batch AS row MATCH (n:Label {id: row.id})
\* SET n.embedding = row.vector, row after row.
\* A query that also sets the id property of the node it matched.
RECURSIVE ApplyBatchRekey(_, _, _)
ApplyBatchRekey(st, label, batch) ==
    IF batch = <<>> THEN st
    ELSE LET old == <<label, Head(batch).id>>
             new == <<label, (Head(batch).id % MaxNodeIds) + 1>>
         IN  ApplyBatchRekey(
                 IF old \in DOMAIN st
                 THEN [k \in (DOMAIN st \ {old}) \cup {new} |->
                          IF k = new THEN Head(batch).vector ELSE st[k]]
                 ELSE st,
                 label, Tail(batch))

RECURSIVE ApplyBatch(_, _, _)
ApplyBatch(st, label, batch) ==
    IF batch = <<>> THEN st
    ELSE ApplyBatch(IF <<label, Head(batch).id>> \in DOMAIN st
                    THEN [st EXCEPT ![<<label, Head(batch).id>>] =
                                        Head(batch).vector]
                    ELSE st,
                    label, Tail(batch))

\* RETURN count(n) as updated.
Updated(st, label, batch) ==
    Cardinality({k \in DOMAIN batch : <<label, batch[k].id>> \in DOMAIN st})

\* The stores a push writes to.
PushStores ==
    {st \in Stores :
        /\ Cardinality(DOMAIN st) <= MaxPushNodes
        /\ \A n \in DOMAIN st : st[n] \in {NoEmbedding, <<1, 0>>}}

\* The command is started on a file and a --batch-size.
PushStarts ==
    {[pc |-> "start", data |-> data, batch_size |-> batch_size,
      clean |-> <<>>, t |-> 0, i |-> 0, total_updated |-> 0, sent |-> <<>>] :
        data \in PushData, batch_size \in BatchSizes}

\* --------------------------------------------------------------- normalize
\* src/mbg_app/management/commands/normalize_ingredients.py, on the names
\* and categories of the Ingredient nodes of graph.

\* The rows of find_case_duplicates in ORDER BY lower_name.
RECURSIVE InsertRow(_, _)
InsertRow(row, rows) ==
    IF rows = <<>> THEN <<row>>
    ELSE IF StrLess(LowerName(row[1]), LowerName(Head(rows)[1]))
    THEN <<row>> \o rows
    ELSE <<Head(rows)>> \o InsertRow(row, Tail(rows))

RECURSIVE OrderRows(_)
OrderRows(rows) ==
    IF rows = <<>> THEN <<>>
    ELSE InsertRow(Head(rows), OrderRows(Tail(rows)))

\* Lines 107-131: the groups of more than one ingredient of one lower-case
\* name, each in the order collect() met its members.
find_case_duplicates(ings, o) == OrderRows(DuplicateRows(Scan(ings, o)))

\* Line 42: category and category != 'Unknown' and category != ''.
has_category(i) == category[i] # "" /\ category[i] # "Unknown"

\* Lines 35-61: the updates of one group: the first member with a proper
\* category is the best candidate, the members without one are updated.
GroupUpdates(group) ==
    LET proper == SelectSeq(group, has_category)
        to_update == SelectSeq(group, LAMBDA i : ~has_category(i))
    IN  IF proper # <<>> /\ to_update # <<>>
        THEN [j \in DOMAIN to_update |->
                 [id |-> to_update[j],
                  new_name |-> name[proper[1]],
                  new_category |-> category[proper[1]]]]
        ELSE <<>>

RECURSIVE updates_needed(_)
updates_needed(duplicates) ==
    IF duplicates = <<>> THEN <<>>
    ELSE GroupUpdates(Head(duplicates)) \o updates_needed(Tail(duplicates))

\* An update that sets the name and leaves the category.
ApplyUpdateNameOnly(nc, update) ==
    [name |-> [nc.name EXCEPT ![update.id] = update.new_name],
     category |-> nc.category]

\* Lines 85-89: SET i.name = $new_name, i.category = $new_category.
ApplyUpdate(nc, update) ==
    [name |-> [nc.name EXCEPT ![update.id] = update.new_name],
     category |-> [nc.category EXCEPT ![update.id] = update.new_category]]

\* How a run goes: to the updates, or to one of the early returns.
NormModes == {"run", "dry_run", "cancelled", "query_failed"}

NoRun == [mode |-> "none"]

\* The graphs a normalize run starts from: one to MaxRetryIngredients
\* Ingredient nodes and at most one relationship or embedding.
NormGraphs ==
    UNION {{GraphOf(1..n, S) : S \in {{}} \cup {{x} : x \in Slots(1..n)}} :
           n \in 1..MaxRetryIngredients}

NormStart ==
    [pc |-> "start", run |-> 1, mode |-> "none", updates_needed |-> <<>>,
     k |-> 0, success_count |-> 0, first |-> NoRun]

\* ------------------------------------------------------------- enrichment
\* src/mbg_app/views.py enrich_ingredient, on one Ingredient node.  A value
\* is Absent (no such key, no such property), Falsy (0.0 or the empty
\* string), Value, or LongText (a description of more than 500 characters,
\* of which Value stands for the first 500).

Absent == -1
Falsy == 0
Value == 2
LongText == 3

\* Two of the nutritional fields and two of the comprehensive fields of the
\* view (lines 618-651).
EnrichFields == {"protein_g", "fat_g", "description", "wikidata_entity"}

\* The properties the Ingredient class declares (models.py lines 41-71):
\* description and wikidata_entity are not among them.
DeclaredProperties == {"protein_g", "fat_g"}

\* enrichment_result[source_field][:500] for the description.
Truncated(field, v) ==
    IF field = "description" /\ v = LongText THEN Value ELSE v

\* What enricher.enrich_ingredient returns (wikidata_enricher.py lines
\* 336-371): not found, or found with the entity and the fields the entity
\* has; a numeric field can be 0.0 and a description empty.
EnrichmentResults ==
    {[wikidata_found |-> FALSE,
      fields |-> [f \in EnrichFields |-> Absent]]}
    \cup {[wikidata_found |-> TRUE, fields |-> fields] :
            fields \in {g \in [EnrichFields -> {Absent, Falsy, Value, LongText}] :
                          /\ g["wikidata_entity"] = Value
                          /\ g["protein_g"] # LongText
                          /\ g["fat_g"] # LongText}}

\* Ingredient.nodes.get: the object has the declared properties of the node.
Inflate(properties) ==
    [f \in EnrichFields |->
        IF f \in DeclaredProperties THEN properties[f] ELSE Absent]

\* Lines 634-651: if source_field in enrichment_result and
\* enrichment_result[source_field]: setattr(ingredient, target_field, ...).
set_fields(object, result) ==
    [f \in EnrichFields |->
        IF result.fields[f] # Absent /\ result.fields[f] # Falsy
        THEN Truncated(f, result.fields[f]) ELSE object[f]]

\* ingredient.save(): the declared properties of the object are written.
Save(properties, object) ==
    [f \in EnrichFields |->
        IF f \in DeclaredProperties THEN object[f] ELSE properties[f]]

\* The properties of the node before the request.
EnrichStarts ==
    {[call |-> "start", properties |-> properties, before |-> properties,
      result |-> [wikidata_found |-> FALSE,
                  fields |-> [f \in EnrichFields |-> Absent]],
      looked_up |-> FALSE, success |-> FALSE] :
        properties \in [EnrichFields -> {Absent, Value}]}

\* ------------------------------------------------------------------ import
\* src/mbg_app/management/commands/import_mbg_data.py.  Here a node is not
\* its id: nodes[<<label, id>>] is the number of nodes of the label with the
\* id, and edges[<<type, a, b>>] the number of relationships of the type
\* from the node of id a to the node of id b.

RelTypes == {"CONTAINS", "BELONGS_TO", "CLASSIFIED_AS"}

\* The labels of the start and the end node of a relationship type.
StartLabel(rel) == IF rel = "CLASSIFIED_AS" THEN "Ingredient" ELSE "Recipe"
EndLabel(rel) == IF rel = "CONTAINS" THEN "Ingredient" ELSE "Category"

NodeRows == UNION {[1..n -> NodeIds] : n \in 0..MaxRows}
RelRows == UNION {[1..n -> NodeIds \X NodeIds] : n \in 0..MaxRelRows}

\* Lines 322-325: save_batch.  obj.save() creates a node; when the store has
\* a uniqueness constraint on the id and a node with it exists, it raises,
\* after the objects before it were saved.
RECURSIVE save_batch(_, _, _, _)
save_batch(nodes, label, objects, constraint) ==
    IF objects = <<>> THEN [nodes |-> nodes, raised |-> FALSE]
    ELSE IF constraint /\ nodes[<<label, Head(objects)>>] > 0
    THEN [nodes |-> nodes, raised |-> TRUE]
    ELSE save_batch([nodes EXCEPT ![<<label, Head(objects)>>] = @ + 1],
                    label, Tail(objects), constraint)

\* Lines 108-235: import_categories, import_ingredients, import_recipes.
\* Each row is looked up in the store; a row not found is put in the pending
\* list, which is saved when it holds batch_size objects and at the end.
\* nodes.get raises MultipleNodesReturned, which is not caught, when several
\* nodes have the id.
RECURSIVE import_nodes(_, _, _, _, _, _)
import_nodes(nodes, label, rows, pending, batch_size, constraint) ==
    IF rows = <<>>
    THEN save_batch(nodes, label, pending, constraint)
    ELSE IF nodes[<<label, Head(rows)>>] > 1
    THEN [nodes |-> nodes, raised |-> TRUE]
    ELSE IF nodes[<<label, Head(rows)>>] = 1
    THEN import_nodes(nodes, label, Tail(rows), pending, batch_size,
                      constraint)
    ELSE IF Len(pending) + 1 >= batch_size
    THEN LET saved == save_batch(nodes, label,
                                 Append(pending, Head(rows)), constraint)
         IN  IF saved.raised THEN saved
             ELSE import_nodes(saved.nodes, label, Tail(rows), <<>>,
                               batch_size, constraint)
    ELSE import_nodes(nodes, label, Tail(rows), Append(pending, Head(rows)),
                      batch_size, constraint)

ConnectAlways(edges, e) == [edges EXCEPT ![e] = @ + 1]

\* if not a.rel.is_connected(b): a.rel.connect(b).
ConnectIfNot(edges, e) ==
    IF edges[e] > 0 THEN edges ELSE [edges EXCEPT ![e] = @ + 1]

\* Lines 250-320: create_*_relationships.  A row whose start or end node
\* does not exist is passed over; MultipleNodesReturned is not caught.
RECURSIVE create_relationships(_, _, _, _, _)
create_relationships(nodes, edges, rel, rows, skipped) ==
    IF rows = <<>>
    THEN [edges |-> edges, raised |-> FALSE, skipped |-> skipped]
    ELSE LET a == <<StartLabel(rel), Head(rows)[1]>>
             b == <<EndLabel(rel), Head(rows)[2]>>
             e == <<rel, Head(rows)[1], Head(rows)[2]>>
         IN  IF nodes[a] = 0 THEN
                 create_relationships(nodes, edges, rel, Tail(rows), skipped)
             ELSE IF nodes[a] > 1 THEN
                 [edges |-> edges, raised |-> TRUE, skipped |-> skipped]
             ELSE IF nodes[b] = 0 THEN
                 create_relationships(nodes, edges, rel, Tail(rows), skipped)
             ELSE IF nodes[b] > 1 THEN
                 [edges |-> edges, raised |-> TRUE, skipped |-> skipped]
             ELSE create_relationships(nodes, ConnectIfNot(edges, e), rel,
                                       Tail(rows), skipped \/ edges[e] > 0)

\* An empty store, with or without the uniqueness constraints that
\* unique_index declares (models.py) and that only an installation of the
\* labels, which the repository does not run, creates.
ImportStarts ==
    {[pc |-> "idle",
      nodes |-> [n \in NodeKeys |-> 0],
      edges |-> [e \in RelTypes \X NodeIds \X NodeIds |-> 0],
      constraint |-> constraint,
      imports |-> 0,
      raised |-> FALSE,
      skipped |-> FALSE] : constraint \in BOOLEAN}

\* ------------------------------------------------------- the second run

OtherOff == [pc |-> "off", merge_operations |-> <<>>, op |-> 0,
             success_count |-> 0, failed |-> {}]
OtherStart == [OtherOff EXCEPT !.pc = "find"]

\* ---------------------------------------------------------- initial states

RunStart ==
    /\ pc = "find"
    /\ merge_operations = <<>>
    /\ op = 0
    /\ success_count = 0
    /\ failed = {}
    /\ original = graph
    /\ start = graph
    /\ pre = graph
    /\ crashes = 0

\* No push_vectors, import, normalize_ingredients or enrichment is run.
PushOff == [pc |-> "off"]
ImpOff == [pc |-> "off"]
NormOff == [pc |-> "off"]
EnrichOff == [call |-> "none"]
ToolsOff == push = PushOff /\ imp = ImpOff /\ norm = NormOff /\ enrich = EnrichOff

\* No search is made, on an empty store.
NoSearch == store = EmptyStore /\ response = NoResponse

\* Graphs with relationships and embeddings, over categories that the sort
\* key tells apart.
Init ==
    /\ graph \in InitialGraphs
    /\ name \in [graph.ingredients -> Names]
    /\ category \in [graph.ingredients -> {"Unknown", "Liquor"}]
    /\ Canonical(graph)
    /\ RunStart
    /\ other = OtherOff
    /\ NoSearch
    /\ ToolsOff

\* Every name and category of every node, in every arrangement, on a graph
\* without relationships: the inputs of the survivor selection.
InitSelect ==
    /\ name \in [IngredientIds -> Names]
    /\ category \in [IngredientIds -> CategoryNames]
    /\ graph = EmptyGraph
    /\ RunStart
    /\ other = OtherOff
    /\ NoSearch
    /\ ToolsOff

\* Two runs of the script are started on one graph.
InitConcurrent ==
    /\ graph \in InitialGraphs
    /\ Cardinality(graph.ingredients) <= MaxConcurrentIngredients
    /\ name \in [graph.ingredients -> Names]
    /\ category \in [graph.ingredients -> {"Unknown", "Liquor"}]
    /\ Canonical(graph)
    /\ RunStart
    /\ other = OtherStart
    /\ NoSearch
    /\ ToolsOff

\* A search call on a store of nodes; no merge runs.
InitSearch ==
    /\ store \in Stores
    /\ response = NoResponse
    /\ graph = GraphOf({}, {})
    /\ name \in [graph.ingredients -> Names]
    /\ category \in [graph.ingredients -> CategoryNames]
    /\ RunStart
    /\ other = OtherOff
    /\ ToolsOff

\* No merge run is started.
RunOff ==
    /\ pc = "off"
    /\ merge_operations = <<>>
    /\ op = 0
    /\ success_count = 0
    /\ failed = {}
    /\ original = graph
    /\ start = graph
    /\ pre = graph
    /\ crashes = 0

\* A push_vectors command on a store of nodes.
InitPush ==
    /\ store \in PushStores
    /\ response = NoResponse
    /\ graph = GraphOf({}, {})
    /\ name \in [graph.ingredients -> Names]
    /\ category \in [graph.ingredients -> CategoryNames]
    /\ RunOff
    /\ other = OtherOff
    /\ push \in PushStarts
    /\ imp = ImpOff
    /\ norm = NormOff
    /\ enrich = EnrichOff

\* A normalize_ingredients command on a graph of ingredients of any name
\* and category.
InitNormalize ==
    /\ graph \in NormGraphs
    /\ name \in [graph.ingredients -> Names]
    /\ category \in [graph.ingredients -> CategoryNames]
    /\ Canonical(graph)
    /\ RunOff
    /\ other = OtherOff
    /\ NoSearch
    /\ push = PushOff
    /\ imp = ImpOff
    /\ norm = NormStart
    /\ enrich = EnrichOff

\* An enrich_ingredient request for an ingredient.
InitEnrich ==
    /\ store = EmptyStore
    /\ response = NoResponse
    /\ graph = GraphOf({}, {})
    /\ name \in [graph.ingredients -> Names]
    /\ category \in [graph.ingredients -> CategoryNames]
    /\ RunOff
    /\ other = OtherOff
    /\ push = PushOff
    /\ imp = ImpOff
    /\ norm = NormOff
    /\ enrich \in EnrichStarts

\* Imports into an empty store.
InitImport ==
    /\ store = EmptyStore
    /\ response = NoResponse
    /\ graph = GraphOf({}, {})
    /\ name \in [graph.ingredients -> Names]
    /\ category \in [graph.ingredients -> CategoryNames]
    /\ RunOff
    /\ other = OtherOff
    /\ push = PushOff
    /\ imp \in ImportStarts
    /\ norm = NormOff
    /\ enrich = EnrichOff

keep_id == merge_operations[op].keep_id
merge_id == merge_operations[op].merge_id

\* Lines 20-71: the duplicate query, the plan, and the early return.
FindDuplicates ==
    /\ pc = "find"
    /\ \E o \in ScanOrders :
          merge_operations' = PlanOperations(graph.ingredients, o)
    /\ success_count' = 0
    /\ failed' = {}
    /\ start' = graph
    /\ pre' = graph
    /\ IF merge_operations' = <<>>
       THEN pc' = "done" /\ op' = 0
       ELSE pc' = "step1" /\ op' = 1
    /\ UNCHANGED <<graph, name, category, original, crashes>>
    /\ UNCHANGED <<other, store, response>>
    /\ UNCHANGED toolVars

Step1 ==
    /\ pc = "step1"
    /\ pre' = graph
    /\ graph' = TransferContains(graph, keep_id, merge_id)
    /\ pc' = "step2"
    /\ UNCHANGED <<name, category, merge_operations, op, success_count,
                   failed, original, start, crashes>>
    /\ UNCHANGED <<other, store, response>>
    /\ UNCHANGED toolVars

Step2 ==
    /\ pc = "step2"
    /\ graph' = TransferClassified(graph, keep_id, merge_id)
    /\ pc' = "step3"
    /\ UNCHANGED <<name, category, merge_operations, op, success_count,
                   failed, original, start, pre, crashes>>
    /\ UNCHANGED <<other, store, response>>
    /\ UNCHANGED toolVars

Step3 ==
    /\ pc = "step3"
    /\ graph' = TransferEmbedding(graph, keep_id, merge_id)
    /\ pc' = "step4"
    /\ UNCHANGED <<name, category, merge_operations, op, success_count,
                   failed, original, start, pre, crashes>>
    /\ UNCHANGED <<other, store, response>>
    /\ UNCHANGED toolVars

\* Lines 157-171, and the loop's advance to the next operation.
Step4 ==
    /\ pc = "step4"
    /\ graph' = DeleteDuplicate(graph, merge_id)
    /\ success_count' = IF DeleteOutcome(graph, merge_id) = "deleted"
                        THEN success_count + 1 ELSE success_count
    /\ failed' = IF DeleteOutcome(graph, merge_id) = "raised"
                 THEN failed \cup {op} ELSE failed
    /\ IF op < Len(merge_operations)
       THEN pc' = "step1" /\ op' = op + 1
       ELSE pc' = "done" /\ op' = op
    /\ UNCHANGED <<name, category, merge_operations, original, start, pre,
                   crashes>>
    /\ UNCHANGED <<other, store, response>>
    /\ UNCHANGED toolVars

\* The process is killed between two queries: what it held in memory is
\* lost, the graph stays as the last query left it, and the script is run
\* again.
Crash ==
    /\ pc \in {"step1", "step2", "step3", "step4"}
    /\ crashes < MaxCrashes
    /\ crashes' = crashes + 1
    /\ pc' = "find"
    /\ merge_operations' = <<>>
    /\ op' = 0
    /\ success_count' = 0
    /\ failed' = {}
    /\ start' = graph
    /\ pre' = graph
    /\ UNCHANGED <<graph, name, category, original>>
    /\ UNCHANGED <<other, store, response>>
    /\ UNCHANGED toolVars

\* ------------------------------------------- the second run's actions
\* The same script, merge_duplicates.py lines 12-173, in another process.

other_keep_id == other.merge_operations[other.op].keep_id
other_merge_id == other.merge_operations[other.op].merge_id

mergeVars == <<name, category, pc, merge_operations, op, success_count,
               failed, original, start, pre, crashes>>

OtherFindDuplicates ==
    /\ other.pc = "find"
    /\ \E o \in ScanOrders :
          LET ops == PlanOperations(graph.ingredients, o)
          IN  other' = [pc |-> IF ops = <<>> THEN "done" ELSE "step1",
                        merge_operations |-> ops,
                        op |-> IF ops = <<>> THEN 0 ELSE 1,
                        success_count |-> 0,
                        failed |-> {}]
    /\ UNCHANGED <<graph, mergeVars, store, response>>
    /\ UNCHANGED toolVars

OtherStep1 ==
    /\ other.pc = "step1"
    /\ graph' = TransferContains(graph, other_keep_id, other_merge_id)
    /\ other' = [other EXCEPT !.pc = "step2"]
    /\ UNCHANGED <<mergeVars, store, response>>
    /\ UNCHANGED toolVars

OtherStep2 ==
    /\ other.pc = "step2"
    /\ graph' = TransferClassified(graph, other_keep_id, other_merge_id)
    /\ other' = [other EXCEPT !.pc = "step3"]
    /\ UNCHANGED <<mergeVars, store, response>>
    /\ UNCHANGED toolVars

OtherStep3 ==
    /\ other.pc = "step3"
    /\ graph' = TransferEmbedding(graph, other_keep_id, other_merge_id)
    /\ other' = [other EXCEPT !.pc = "step4"]
    /\ UNCHANGED <<mergeVars, store, response>>
    /\ UNCHANGED toolVars

OtherStep4 ==
    /\ other.pc = "step4"
    /\ graph' = DeleteDuplicate(graph, other_merge_id)
    /\ other' = [other EXCEPT
          !.success_count =
              IF DeleteOutcome(graph, other_merge_id) = "deleted"
              THEN @ + 1 ELSE @,
          !.failed =
              IF DeleteOutcome(graph, other_merge_id) = "raised"
              THEN @ \cup {other.op} ELSE @,
          !.pc = IF other.op < Len(other.merge_operations)
                 THEN "step1" ELSE "done",
          !.op = IF other.op < Len(other.merge_operations)
                 THEN @ + 1 ELSE @]
    /\ UNCHANGED <<mergeVars, store, response>>
    /\ UNCHANGED toolVars

\* ----------------------------------------------------- the search calls
\* One call per behaviour, with every argument; the store answers a query
\* or is unreachable for it.

Search ==
    /\ response = NoResponse
    /\ \E up \in BOOLEAN, query_embedding \in QueryVectors,
          node_type \in NodeTypes, limit \in Limits,
          threshold \in Thresholds :
          \E ret \in search_by_embedding(store, up, query_embedding,
                                         node_type, limit, threshold) :
              response' = [call |-> "search_by_embedding",
                           store_failed |-> ~up,
                           query_embedding |-> query_embedding,
                           node_type |-> node_type,
                           limit |-> limit,
                           threshold |-> threshold,
                           returned |-> ret]
    /\ UNCHANGED <<graph, mergeVars, other, store>>
    /\ UNCHANGED toolVars

SimilarItems ==
    /\ response = NoResponse
    /\ \E up1 \in BOOLEAN, up2 \in BOOLEAN, item_id \in NodeIds,
          item_type \in NodeTypes, limit \in Limits,
          threshold \in Thresholds :
          \E ret \in find_similar_items(store, up1, up2, item_id, item_type,
                                        limit, threshold) :
              response' = [call |-> "find_similar_items",
                           store_failed |->
                               ~up1 \/ (ret.searched /\ ~up2),
                           item_id |-> item_id,
                           node_type |-> item_type,
                           limit |-> limit,
                           threshold |-> threshold,
                           returned |-> ret]
    /\ UNCHANGED <<graph, mergeVars, other, store>>
    /\ UNCHANGED toolVars

\* has_embeddings, lines 14-27.
has_embeddings(st, up, node_type) ==
    IF ~up THEN FALSE ELSE WithEmbedding(st, Capitalize(node_type)) # {}

\* views.py similar_items_api, lines 164-218: the JSON status and data.
SimilarItemsApi ==
    /\ response = NoResponse
    /\ \E up0 \in BOOLEAN, up1 \in BOOLEAN, up2 \in BOOLEAN,
          item_id \in NodeIds, item_type \in NodeTypes, limit \in Limits,
          threshold \in Thresholds :
          IF ~has_embeddings(store, up0, item_type)
          THEN response' = [call |-> "similar_items_api",
                            store_failed |-> ~up0,
                            item_id |-> item_id,
                            node_type |-> item_type,
                            limit |-> limit,
                            threshold |-> threshold,
                            status |-> "info",
                            returned |-> Returned(<<>>, ~up0, FALSE)]
          ELSE \E ret \in find_similar_items(store, up1, up2, item_id,
                                             item_type, limit, threshold) :
                  response' = [call |-> "similar_items_api",
                               store_failed |->
                                   ~up1 \/ (ret.searched /\ ~up2),
                               item_id |-> item_id,
                               node_type |-> item_type,
                               limit |-> limit,
                               threshold |-> threshold,
                               status |-> "success",
                               returned |-> ret]
    /\ UNCHANGED <<graph, mergeVars, other, store>>
    /\ UNCHANGED toolVars

\* ------------------------------------------------- push_vectors actions

\* Lines 24-67: load the file and prepare the batches.
PushPrepare ==
    /\ push.pc = "start"
    /\ LET clean == clean_batches(push.data)
           t == NextType(clean, 0)
       IN  push' = [push EXCEPT !.clean = clean,
                                !.t = t,
                                !.pc = IF t = 0 THEN "done" ELSE "batch"]
    /\ UNCHANGED <<graph, mergeVars, other, store, response, imp, norm,
                   enrich>>

\* Lines 99-109: one chunk is sent; the store applies it or the query fails
\* and "Batch error" is printed.  Then the loop goes on with the next chunk,
\* or the next type, or ends.
PushBatch ==
    /\ push.pc = "batch"
    /\ \E ok \in BOOLEAN :
        LET items == push.clean[push.t]
            batch == BatchOf(items, push.i, push.batch_size)
            label == PushLabel(push.t)
            last == push.i + push.batch_size >= Len(items)
            t == NextType(push.clean, push.t)
        IN  /\ store' = IF ok THEN ApplyBatch(store, label, batch) ELSE store
            /\ push' = [push EXCEPT
                  !.sent = Append(@, [t |-> push.t, i |-> push.i,
                                      batch |-> batch, ok |-> ok]),
                  !.total_updated =
                      IF last /\ t # 0 THEN 0
                      ELSE IF ok THEN @ + Updated(store, label, batch)
                      ELSE @,
                  !.i = IF last THEN 0 ELSE @ + push.batch_size,
                  !.t = IF last THEN t ELSE @,
                  !.pc = IF last /\ t = 0 THEN "done" ELSE "batch"]
    /\ UNCHANGED <<graph, mergeVars, other, response, imp, norm, enrich>>

\* ------------------------------------------------------- import actions

\* import_categories, import_ingredients or import_recipes on a CSV file.
ImportNodes ==
    /\ imp.pc = "idle"
    /\ imp.imports < MaxImports
    /\ \E label \in Labels, rows \in NodeRows, batch_size \in BatchSizes :
          LET done == import_nodes(imp.nodes, label, rows, <<>>, batch_size,
                                   imp.constraint)
          IN  imp' = [imp EXCEPT !.nodes = done.nodes,
                                 !.raised = done.raised,
                                 !.skipped = FALSE,
                                 !.imports = @ + 1]
    /\ UNCHANGED <<graph, mergeVars, other, store, response, push, norm,
                   enrich>>

\* One of the three create_*_relationships on its CSV file.
ImportRelationships ==
    /\ imp.pc = "idle"
    /\ imp.imports < MaxImports
    /\ \E rel \in RelTypes, rows \in RelRows :
          LET done == create_relationships(imp.nodes, imp.edges, rel, rows,
                                           FALSE)
          IN  imp' = [imp EXCEPT !.edges = done.edges,
                                 !.raised = done.raised,
                                 !.skipped = done.skipped,
                                 !.imports = @ + 1]
    /\ UNCHANGED <<graph, mergeVars, other, store, response, push, norm,
                   enrich>>

\* ---------------------------------------------------- normalize actions

runVars == <<pc, merge_operations, op, success_count, failed, original,
             start, pre, crashes>>

\* Lines 14-77: the duplicates are read and the updates planned; the command
\* returns when there is none, on --dry-run and when not confirmed.
NormFind ==
    /\ norm.pc = "start"
    /\ \E o \in ScanOrders, mode \in NormModes :
          LET duplicates == IF mode = "query_failed" THEN <<>>
                            ELSE find_case_duplicates(graph.ingredients, o)
              planned == updates_needed(duplicates)
              go == mode = "run" /\ planned # <<>>
          IN  norm' = [norm EXCEPT !.pc = IF go THEN "update" ELSE "done",
                                   !.mode = mode,
                                   !.updates_needed = planned,
                                   !.k = IF go THEN 1 ELSE 0]
    /\ UNCHANGED <<graph, name, category, runVars, other, store, response,
                   push, imp, enrich>>

\* Lines 83-102: one update; the query may raise, which is printed.
NormUpdate ==
    /\ norm.pc = "update"
    /\ \E ok \in BOOLEAN :
          LET set == ApplyUpdate([name |-> name, category |-> category],
                                 norm.updates_needed[norm.k])
          IN  /\ name' = IF ok THEN set.name ELSE name
              /\ category' = IF ok THEN set.category ELSE category
              /\ norm' = [norm EXCEPT
                    !.success_count = IF ok THEN @ + 1 ELSE @,
                    !.k = @ + 1,
                    !.pc = IF norm.k = Len(norm.updates_needed)
                           THEN "done" ELSE "update"]
    /\ UNCHANGED <<graph, runVars, other, store, response, push, imp,
                   enrich>>

\* The command is run a second time.
NormAgain ==
    /\ norm.pc = "done"
    /\ norm.run = 1
    /\ norm' = [NormStart EXCEPT
                  !.run = 2,
                  !.first = [mode |-> norm.mode,
                             updates_needed |-> norm.updates_needed,
                             success_count |-> norm.success_count,
                             name |-> name,
                             category |-> category]]
    /\ UNCHANGED <<graph, name, category, runVars, other, store, response,
                   push, imp, enrich>>

\* ------------------------------------------------------- enrich action

\* views.py lines 566-705.  The ingredient may not exist; a loaded object
\* with a wikidata_entity is returned as it is; otherwise the lookup is made
\* and, when it found the entity, the fields are set and the object saved.
enrich_ingredient ==
    /\ enrich.call = "start"
    /\ \E exists \in BOOLEAN, result \in EnrichmentResults :
          LET ingredient == Inflate(enrich.properties)
              already == ingredient["wikidata_entity"] # Absent
              looked_up == exists /\ ~already
              saved == looked_up /\ result.wikidata_found
          IN  enrich' = [enrich EXCEPT
                  !.call = IF exists THEN "done" ELSE "not_found",
                  !.result = IF looked_up THEN result ELSE @,
                  !.looked_up = looked_up,
                  !.success = exists /\ (already \/ result.wikidata_found),
                  !.properties =
                      IF saved
                      THEN Save(@, set_fields(ingredient, result))
                      ELSE @]
    /\ UNCHANGED <<graph, name, category, runVars, other, store, response,
                   push, imp, norm>>

Next == FindDuplicates \/ Step1 \/ Step2 \/ Step3 \/ Step4

Spec == Init /\ [][Next]_vars

NextRetry == Next \/ Crash

\* The interrupted runs start from the smaller graphs of Init.
InitRetry == Init /\ Cardinality(graph.ingredients) <= MaxRetryIngredients

SpecRetry == InitRetry /\ [][NextRetry]_vars

SpecSelect == InitSelect /\ [][Next]_vars

NextConcurrent ==
    Next \/ OtherFindDuplicates \/ OtherStep1 \/ OtherStep2 \/ OtherStep3
         \/ OtherStep4

SpecConcurrent == InitConcurrent /\ [][NextConcurrent]_vars

NextPush == PushPrepare \/ PushBatch

SpecPush == InitPush /\ [][NextPush]_vars

NextImport == ImportNodes \/ ImportRelationships

SpecImport == InitImport /\ [][NextImport]_vars

NextNormalize == NormFind \/ NormUpdate \/ NormAgain

SpecNormalize == InitNormalize /\ [][NextNormalize]_vars

\* One of the three maintenance tools runs: the merge script, the
\* normalize_ingredients command or the push_vectors command.
InitMaintain == InitRetry \/ InitNormalize \/ InitPush

NextMaintain == Next \/ NextNormalize \/ NextPush

SpecMaintain == InitMaintain /\ [][NextMaintain]_vars

NextEnrich == enrich_ingredient

SpecEnrich == InitEnrich /\ [][NextEnrich]_vars

NextSearch == Search \/ SimilarItems \/ SimilarItemsApi

SpecSearch == InitSearch /\ [][NextSearch]_vars

\* ------------------------------------------------------------------ claims

\* The operations whose four steps have run.
Completed == IF pc = "done" THEN 1..Len(merge_operations) ELSE 1..(op - 1)

NoDuplicateEdges(g) ==
    /\ \A e \in DOMAIN g.contains : g.contains[e] <= 1
    /\ \A e \in DOMAIN g.classified : g.classified[e] <= 1

\* C1: on a graph without duplicate edges, after step 1 of a pair every
\* Recipe that had a CONTAINS edge to the loser has exactly one CONTAINS edge
\* to the survivor and none to the loser, also when it already contained the
\* survivor; and no (Recipe, Ingredient) pair ever carries two CONTAINS edges.
C1_ContainsTransferred ==
    /\ \A e \in DOMAIN graph.contains : graph.contains[e] <= 1
    /\ pc = "step2" =>
          \A r \in RecipeIds :
              pre.contains[<<r, merge_id>>] > 0 =>
                  /\ graph.contains[<<r, keep_id>>] = 1
                  /\ graph.contains[<<r, merge_id>>] = 0

\* Step 1 has run for a Recipe that contained both the loser and the survivor.
C1_Witness ==
    /\ pc = "step2"
    /\ \E r \in RecipeIds :
          /\ pre.contains[<<r, merge_id>>] = 1
          /\ pre.contains[<<r, keep_id>>] = 1

\* C8: after step 2 of a pair every Category the loser was CLASSIFIED_AS is
\* linked from the survivor by exactly one CLASSIFIED_AS edge and by none from
\* the loser, also when the survivor was already classified under it.
C8_ClassifiedTransferred ==
    /\ \A e \in DOMAIN graph.classified : graph.classified[e] <= 1
    /\ pc = "step3" =>
          \A c \in CategoryIds :
              pre.classified[<<merge_id, c>>] > 0 =>
                  /\ graph.classified[<<keep_id, c>>] = 1
                  /\ graph.classified[<<merge_id, c>>] = 0

\* Step 2 has run for a Category that classified both the loser and the
\* survivor.
C8_Witness ==
    /\ pc = "step3"
    /\ \E c \in CategoryIds :
          /\ pre.classified[<<merge_id, c>>] = 1
          /\ pre.classified[<<keep_id, c>>] = 1

\* C3: step 4 never deletes a loser that still has a relationship: the delete
\* fails, the failure is reported for that operation, and the loser stays in
\* the graph with what is attached to it (nothing is cascade-deleted).
C3_NoCascadeDelete ==
    /\ graph.otherRels = original.otherRels
    /\ \A i \in IngredientIds :
          i \notin graph.ingredients => Degree(graph, i) = 0
    /\ \A k \in Completed :
          (merge_operations[k].merge_id \in graph.ingredients) <=> (k \in failed)

\* An operation has been reported failed, and its loser is still in the graph
\* with a relationship.
C3_Witness ==
    /\ pc = "done"
    /\ \E k \in failed :
          /\ merge_operations[k].merge_id \in graph.ingredients
          /\ Degree(graph, merge_operations[k].merge_id) > 0

NoDuplicateNames(g) ==
    \A i, j \in g.ingredients : i # j => ToLower(name[i]) # ToLower(name[j])

\* C4: after a merge pass in which every operation succeeded no two Ingredient
\* nodes have the same name under case-insensitive comparison, and the
\* duplicate query returns no row.
C4_NoDuplicatesAfterPass ==
    (pc = "done" /\ success_count = Len(merge_operations)) =>
        /\ NoDuplicateNames(graph)
        /\ \A o \in ScanOrders : findDuplicateGroups(graph.ingredients, o) = <<>>

\* A pass of two successful operations has ended.
C4_Witness ==
    /\ pc = "done"
    /\ Len(merge_operations) >= 2
    /\ success_count = Len(merge_operations)

\* The members of the duplicate group of operation k, as the run found them.
GroupOf(k) ==
    {i \in start.ingredients :
        ToLower(name[i]) = ToLower(name[merge_operations[k].keep_id])}

ProperCategory(i) == category[i] # "Unknown" /\ category[i] # ""

\* C2: in every duplicate group with a member whose category is neither
\* "Unknown" nor empty, the chosen survivor has a category that is neither
\* "Unknown" nor empty.
C2_SurvivorHasCategory ==
    \A k \in 1..Len(merge_operations) :
        (\E m \in GroupOf(k) : ProperCategory(m)) =>
            ProperCategory(merge_operations[k].keep_id)

\* C9: the survivor of a group is the same whatever the order in which the
\* store returns the members, also for members that tie on category status
\* and on name.
C9_SurvivorIndependentOfOrder ==
    \A k \in 1..Len(merge_operations) :
        \A o \in ScanOrders :
            LET rows == findDuplicateGroups(start.ingredients, o)
            IN  \A n \in 1..Len(rows) :
                    merge_operations[k].keep_id \in {rows[n][m] : m \in 1..Len(rows[n])}
                        => best_candidate(rows[n]) = merge_operations[k].keep_id

\* The recipes that contain, and the categories that classify, a member of S.
RecipesOf(g, S) == {r \in RecipeIds : \E m \in S : g.contains[<<r, m>>] > 0}
CategoriesOf(g, S) == {c \in CategoryIds : \E m \in S : g.classified[<<m, c>>] > 0}

\* The operations of the group of operation k.
GroupOperations(k) ==
    {n \in 1..Len(merge_operations) :
        merge_operations[n].keep_id = merge_operations[k].keep_id}

\* C6: after a fully successful merge of a duplicate group all members but the
\* survivor are deleted, the survivor is contained in exactly the Recipes that
\* contained a member of the group, classified under exactly the Categories
\* of the group, and linked to each of them once.
C6_GroupUnion ==
    pc = "done" =>
        \A k \in 1..Len(merge_operations) :
            LET s == merge_operations[k].keep_id
            IN  GroupOperations(k) \cap failed = {} =>
                    /\ GroupOf(k) \cap graph.ingredients = {s}
                    /\ RecipesOf(graph, {s}) = RecipesOf(start, GroupOf(k))
                    /\ CategoriesOf(graph, {s}) = CategoriesOf(start, GroupOf(k))
                    /\ \A r \in RecipeIds : graph.contains[<<r, s>>] <= 1
                    /\ \A c \in CategoryIds : graph.classified[<<s, c>>] <= 1
                    /\ \A m \in GroupOf(k) \ {s} : Degree(graph, m) = 0

\* A group of three was merged, and the survivor took over a Recipe and a
\* Category it did not have.
C6_Witness ==
    /\ pc = "done"
    /\ Len(merge_operations) = 2
    /\ failed = {}
    /\ merge_operations[1].keep_id = merge_operations[2].keep_id
    /\ RecipesOf(start, {merge_operations[1].keep_id}) = {}
    /\ RecipesOf(graph, {merge_operations[1].keep_id}) # {}
    /\ CategoriesOf(start, {merge_operations[1].keep_id}) = {}
    /\ CategoriesOf(graph, {merge_operations[1].keep_id}) # {}

\* C7: step 3 never changes an embedding that the survivor has; it sets the
\* survivor's embedding to the loser's only when the survivor has none and
\* the loser has one; over a group with several losers that have one, the
\* survivor keeps the first it received.
C7_EmbeddingKept ==
    /\ pc = "step4" =>
          graph.embedding[keep_id] =
              IF pre.embedding[keep_id] = NULL /\ pre.embedding[merge_id] # NULL
              THEN pre.embedding[merge_id]
              ELSE pre.embedding[keep_id]
    /\ \A i \in graph.ingredients :
          /\ start.embedding[i] # NULL => graph.embedding[i] = start.embedding[i]
          /\ graph.embedding[i] # start.embedding[i] =>
                \E k \in 1..Len(merge_operations) :
                    /\ merge_operations[k].keep_id = i
                    /\ graph.embedding[i] = start.embedding[merge_operations[k].merge_id]
                    /\ \A n \in 1..(k - 1) :
                          merge_operations[n].keep_id = i =>
                              start.embedding[merge_operations[n].merge_id] = NULL

\* Step 3 has run for a second loser with an embedding, on a survivor that
\* received its embedding from the first loser.
C7_Witness ==
    /\ pc = "step4"
    /\ op = 2
    /\ start.embedding[keep_id] = NULL
    /\ pre.embedding[keep_id] # NULL
    /\ pre.embedding[merge_id] # NULL

\* C10: a run on a graph without duplicate groups performs no writes.
C10_NoWritesWithoutDuplicates ==
    (pc # "find" /\ NoDuplicateNames(start)) =>
        /\ graph = start
        /\ merge_operations = <<>>
        /\ pc = "done"

\* A run has ended on a graph without duplicate groups that has relationships.
C10_Witness ==
    /\ pc = "done"
    /\ NoDuplicateNames(start)
    /\ RecipesOf(start, start.ingredients) # {}

\* What C5 compares: the surviving nodes and the two edge sets.
MergedView(g) ==
    [ingredients |-> g.ingredients, contains |-> g.contains,
     classified |-> g.classified]

\* The graphs an uninterrupted run on g can end in, one per scan order.
UninterruptedOutcomes(g) ==
    {MergedView(MergeAll(g, PlanOperations(g.ingredients, o))) : o \in ScanOrders}

\* Every relationship ends at a node of the graph.
NoDanglingEdges(g) ==
    \A i \in IngredientIds : i \notin g.ingredients => Degree(g, i) = 0

\* C5: a run interrupted after any step leaves a graph that can be merged
\* again (no duplicate and no dangling edge), and the re-run ends with the
\* surviving nodes and the CONTAINS and CLASSIFIED_AS edges that an
\* uninterrupted merge of the original graph ends with.
C5_RetryConverges ==
    /\ NoDuplicateEdges(graph)
    /\ NoDanglingEdges(graph)
    /\ pc = "done" => MergedView(graph) \in UninterruptedOutcomes(original)

\* A run was interrupted after it had changed the graph, and the re-run, which
\* still found duplicates, has ended.
C5_Witness ==
    /\ pc = "done"
    /\ crashes >= 1
    /\ start # original
    /\ merge_operations # <<>>

InSteps(p) == p \in {"step1", "step2", "step3", "step4"}

\* C11: two merge runs are never inside the merge steps of one duplicate
\* group (the nodes of one lower-cased name) at the same time.
C11_GroupSerialized ==
    ~ /\ InSteps(pc)
      /\ InSteps(other.pc)
      /\ keep_id \in graph.ingredients
      /\ other_keep_id \in graph.ingredients
      /\ ToLower(name[keep_id]) = ToLower(name[other_keep_id])

\* The result list of the call made.
results == response.returned.results

\* The nodes of the searched label whose embedding has the length of the
\* query and whose similarity meets the threshold.
Comparable(label, query_embedding, threshold) ==
    {n \in WithEmbedding(store, label) :
        /\ Len(store[n]) = Len(query_embedding)
        /\ cosine(query_embedding, store[n]) >= threshold}

Min(a, b) == IF a < b THEN a ELSE b

\* C12: search_by_embedding with limit N returns at most N results, in
\* non-increasing order of score, and none when N is 0, whatever the query
\* vector, the type and the store.
C12_LimitAndOrder ==
    response.call = "search_by_embedding" =>
        /\ Len(results) <= response.limit
        /\ \A a, b \in DOMAIN results :
              a < b => results[a].similarity_score
                         >= results[b].similarity_score
        /\ response.limit = 0 => results = <<>>

\* A search returned two results of different scores.
C12_Witness ==
    /\ response.call = "search_by_embedding"
    /\ Len(results) = 2
    /\ results[1].similarity_score > results[2].similarity_score

\* C13: no result of search_by_embedding carries a similarity_score below
\* the threshold of the call.
C13_ScoreMeetsThreshold ==
    response.call = "search_by_embedding" =>
        \A k \in DOMAIN results :
            results[k].similarity_score >= response.threshold

\* C14: the results of find_similar_items never include the node whose id is
\* item_id.
C14_ReferenceExcluded ==
    response.call = "find_similar_items" =>
        \A k \in DOMAIN results : results[k].id # response.item_id

\* C15: when the store answers, a stored embedding of another length than the
\* query only removes its own node: the search returns the other nodes of the
\* type that meet the threshold, up to the limit.
C15_MismatchSkipped ==
    (response.call = "search_by_embedding" /\ ~response.store_failed) =>
        LET good == Comparable(Capitalize(response.node_type),
                               response.query_embedding, response.threshold)
        IN  /\ Len(results) = Min(response.limit, Cardinality(good))
            /\ \A k \in DOMAIN results :
                  <<Capitalize(response.node_type), results[k].id>> \in good

\* C16: a call whose query found the store unreachable ends in an error the
\* caller can tell from an empty result: it raises, or the API answers with
\* status "error".
C16_FailurePropagated ==
    (response.call # "none" /\ response.store_failed) =>
        \/ response.returned.raised
        \/ /\ response.call = "similar_items_api"
           /\ response.status = "error"

\* C17: a search of type "all" covers the three labels: when a node of any
\* label meets the threshold and the limit is not 0, the result is not empty.
C17_AllResolved ==
    (/\ response.call = "search_by_embedding"
     /\ response.node_type = "all"
     /\ ~response.store_failed
     /\ response.limit > 0
     /\ \A n \in DOMAIN store :
           store[n] # NoEmbedding =>
               Len(store[n]) = Len(response.query_embedding)) =>
        ((\E label \in Labels :
             Comparable(label, response.query_embedding,
                        response.threshold) # {})
         => results # <<>>)

\* C18: the store and the arguments of a search determine the list it
\* returns, tied scores and the limit cut-off included.
C18_Deterministic ==
    response.call = "search_by_embedding" =>
        Cardinality(search_by_embedding(store, ~response.store_failed,
                        response.query_embedding, response.node_type,
                        response.limit, response.threshold)) = 1

\* C19: with threshold 0 a search of one type returns min(limit, number of
\* nodes of the type with an embedding) results, whatever their similarity.
C19_ThresholdZeroReturnsAll ==
    (/\ response.call = "search_by_embedding"
     /\ response.threshold = 0
     /\ ~response.store_failed
     /\ ~CosineRaises(store, Capitalize(response.node_type),
                      response.query_embedding)) =>
        Len(results) =
            Min(response.limit,
                Cardinality(WithEmbedding(store,
                                Capitalize(response.node_type))))

\* C20: find_similar_items on an id that matches no node of the type, or a
\* node without embedding, returns the empty list, raises nothing and runs no
\* similarity search.
C20_NoReferenceNoSearch ==
    (/\ response.call = "find_similar_items"
     /\ \A n \in ReferenceRows(store, response.item_id, response.node_type) :
           store[n] = NoEmbedding) =>
        /\ results = <<>>
        /\ ~response.returned.raised
        /\ ~response.returned.searched

\* find_similar_items was called with the id of a node that has no
\* embedding, on a store that holds a node of the type with one.
C20_Witness ==
    /\ response.call = "find_similar_items"
    /\ ~response.store_failed
    /\ ReferenceRows(store, response.item_id, response.node_type) # {}
    /\ \A n \in ReferenceRows(store, response.item_id, response.node_type) :
          store[n] = NoEmbedding
    /\ WithEmbedding(store, Capitalize(response.node_type)) # {}

\* C21: when push_vectors has ended, every chunk whose query failed was sent
\* again as the same chunk.
C21_FailedBatchRetried ==
    push.pc = "done" =>
        \A k \in DOMAIN push.sent :
            ~push.sent[k].ok =>
                \E j \in DOMAIN push.sent :
                    /\ j > k
                    /\ push.sent[j].t = push.sent[k].t
                    /\ push.sent[j].i = push.sent[k].i
                    /\ push.sent[j].batch = push.sent[k].batch

\* The items of the file that have an embedding and whose lower-cased type is
\* the t-th of recipe, ingredient, category, in the order of the file.
Eligible(t) ==
    SelectSeq(push.data, LAMBDA item :
        /\ item.embedding # NoEmbedding
        /\ \/ t = 1 /\ item.type \in {"recipe", "Recipe"}
           \/ t = 2 /\ item.type \in {"ingredient", "Ingredient"}
           \/ t = 3 /\ item.type \in {"category", "Category"})

\* The chunks sent for the t-th type, in the order sent.
SentOf(t) == SelectSeq(push.sent, LAMBDA b : b.t = t)

RECURSIVE Flatten(_)
Flatten(chunks) ==
    IF chunks = <<>> THEN <<>>
    ELSE Head(chunks).batch \o Flatten(Tail(chunks))

\* C25: when push_vectors has ended, the chunks sent for a type are, one after
\* the other, the eligible items of the type in the order of the file, each
\* item in one chunk and each chunk of 1 to batch_size items, whether or not
\* an earlier chunk failed.
C25_BatchesPartition ==
    push.pc = "done" =>
        \A t \in 1..3 :
            /\ Len(Flatten(SentOf(t))) = Len(Eligible(t))
            /\ \A k \in DOMAIN Eligible(t) :
                  /\ Flatten(SentOf(t))[k].id = Eligible(t)[k].id
                  /\ Flatten(SentOf(t))[k].vector = Eligible(t)[k].embedding
            /\ \A k \in DOMAIN SentOf(t) :
                  /\ Len(SentOf(t)[k].batch) >= 1
                  /\ Len(SentOf(t)[k].batch) <= push.batch_size

\* The command has ended, a chunk failed, and a later chunk was sent.
C25_Witness ==
    /\ push.pc = "done"
    /\ \E k, j \in DOMAIN push.sent :
          /\ k < j
          /\ ~push.sent[k].ok
          /\ push.sent[k].t = push.sent[j].t
          /\ Len(push.sent[k].batch) = 2

\* C26: a chunk of push_vectors creates and deletes no node, changes the
\* embedding only of a node of the chunk's label whose id is the id of a row,
\* to the vector of that row, and changes nothing else in the graph.
C26_PushSetsOnlyEmbedding ==
    [][push.pc = "batch" =>
          /\ DOMAIN store' = DOMAIN store
          /\ \A n \in DOMAIN store :
                store'[n] # store[n] =>
                    \E k \in DOMAIN push'.sent[Len(push'.sent)].batch :
                        LET row == push'.sent[Len(push'.sent)].batch[k]
                        IN  /\ n = <<PushLabel(push.t), row.id>>
                            /\ store'[n] = row.vector
          /\ graph' = graph
          /\ name' = name
          /\ category' = category]_vars

\* A chunk was applied that had a row for an existing node, whose embedding
\* it set, and a row that matches no node.
C26_Witness ==
    /\ push.pc = "done"
    /\ \E k \in DOMAIN push.sent :
          /\ push.sent[k].ok
          /\ \E a, b \in DOMAIN push.sent[k].batch :
                /\ <<PushLabel(push.sent[k].t), push.sent[k].batch[a].id>>
                       \in DOMAIN store
                /\ store[<<PushLabel(push.sent[k].t),
                           push.sent[k].batch[a].id>>] = <<0, 1>>
                /\ <<PushLabel(push.sent[k].t), push.sent[k].batch[b].id>>
                       \notin DOMAIN store

\* C22: after any sequence of imports there is at most one relationship of
\* a type from one node to another; importing a row of a connected pair
\* changes nothing.
C22_EdgesIdempotent ==
    \A e \in DOMAIN imp.edges : imp.edges[e] <= 1

\* A relationship import met a row whose pair was connected already.
C22_Witness ==
    /\ imp.skipped
    /\ \E e \in DOMAIN imp.edges : imp.edges[e] = 1

\* C23: after any sequence of node imports no two nodes of a label have the
\* same id.
C23_IdsUnique ==
    \A n \in DOMAIN imp.nodes : imp.nodes[n] <= 1

\* A confirmed run of normalize_ingredients ended and each of its updates
\* succeeded.
FirstRunComplete ==
    /\ norm.run = 2
    /\ norm.first.mode = "run"
    /\ norm.first.updates_needed # <<>>
    /\ norm.first.success_count = Len(norm.first.updates_needed)

C24_IdsImmutable ==
    [][/\ graph'.ingredients \subseteq graph.ingredients
       /\ DOMAIN store' \subseteq DOMAIN store
       /\ DOMAIN name' = DOMAIN name
       /\ DOMAIN category' = DOMAIN category]_vars

\* A normalize run has rewritten the name of a node, or a merge run has
\* deleted one and kept another.
C24_Witness ==
    \/ /\ norm.pc = "done"
       /\ norm.success_count > 0
       /\ norm.run = 1
    \/ /\ pc = "done"
       /\ graph.ingredients # original.ingredients
       /\ graph.ingredients # {}

\* C27: enrich_ingredient sets if present.  When the lookup reports not
\* found no property of the ingredient changes; when found, a property is
\* set to its source field if and only if the field is in the result, and
\* every other property keeps its value; an ingredient that has a
\* wikidata_entity is returned unchanged without a lookup.
C27_SetIfPresent ==
    enrich.call = "done" =>
        /\ enrich.before["wikidata_entity"] # Absent =>
              /\ ~enrich.looked_up
              /\ enrich.properties = enrich.before
        /\ (enrich.looked_up /\ ~enrich.result.wikidata_found) =>
              enrich.properties = enrich.before
        /\ (enrich.looked_up /\ enrich.result.wikidata_found) =>
              \A f \in EnrichFields :
                 enrich.properties[f] =
                    IF enrich.result.fields[f] # Absent
                    THEN Truncated(f, enrich.result.fields[f])
                    ELSE enrich.before[f]

\* The operations of the run in which i is the loser.
LoserOperations(i) ==
    {k \in 1..Len(merge_operations) : merge_operations[k].merge_id = i}

Survivors == {merge_operations[k].keep_id : k \in 1..Len(merge_operations)}

\* The members of the duplicate group of i in the graph the run read.
DuplicatesOf(i) ==
    {j \in start.ingredients : j # i /\ LowerName(j) = LowerName(i)}

\* C28: in one merge run every member of a duplicate group other than the
\* survivor of the group is the loser of exactly one operation, each group
\* has one survivor, and a survivor is the loser of no operation, so that
\* no step of the run deletes a node it transfers relationships to.
C28_LosersOnceSurvivorNever ==
    pc # "find" =>
        /\ \A i \in start.ingredients :
              IF DuplicatesOf(i) = {} THEN
                  i \notin Survivors /\ LoserOperations(i) = {}
              ELSE IF i \in Survivors THEN
                  /\ LoserOperations(i) = {}
                  /\ DuplicatesOf(i) \cap Survivors = {}
              ELSE
                  /\ Cardinality(LoserOperations(i)) = 1
                  /\ \E s \in DuplicatesOf(i) \cap Survivors :
                        \A k \in LoserOperations(i) :
                            merge_operations[k].keep_id = s
        /\ \A k \in 1..Len(merge_operations) :
              /\ merge_operations[k].keep_id # merge_operations[k].merge_id
              /\ merge_operations[k].keep_id \in graph.ingredients

\* A run over a group of three has deleted both losers and the survivor is
\* there.
C28_Witness ==
    /\ pc = "done"
    /\ Len(merge_operations) = 2
    /\ merge_operations[1].keep_id = merge_operations[2].keep_id
    /\ success_count = 2
    /\ merge_operations[1].merge_id \notin graph.ingredients
    /\ merge_operations[2].merge_id \notin graph.ingredients
    /\ merge_operations[1].keep_id \in graph.ingredients

\* Ingredient i is in no duplicate group of the graph the run started on.
Ungrouped(i) ==
    \A j \in original.ingredients : j # i => LowerName(j) # LowerName(i)

\* C29: a step of a merge run changes only CONTAINS and CLASSIFIED_AS
\* relationships of members of duplicate groups, the embedding of a
\* survivor that had none, and the existence of the loser of step 4.  Names
\* and categories, the other relationships, and the ingredients in no
\* duplicate group with their relationships and embeddings are unchanged;
\* the survivor stays with its name and category.
C29_MergeFrame ==
    [][/\ name' = name
       /\ category' = category
       /\ graph'.otherRels = graph.otherRels
       /\ graph'.ingredients \subseteq graph.ingredients
       /\ \A i \in graph.ingredients \ graph'.ingredients :
             pc = "step4" /\ i = merge_id /\ ~Ungrouped(i)
       /\ (pc \in {"step1", "step2", "step3", "step4"}
           /\ keep_id \in graph.ingredients) => keep_id \in graph'.ingredients
       /\ \A i \in graph'.ingredients :
             graph'.embedding[i] # graph.embedding[i] =>
                /\ pc = "step3"
                /\ i = keep_id
                /\ graph.embedding[i] = NULL
       /\ \A i \in original.ingredients :
             Ungrouped(i) =>
                /\ i \in graph'.ingredients
                /\ graph'.embedding[i] = graph.embedding[i]
                /\ \A r \in RecipeIds :
                      graph'.contains[<<r, i>>] = graph.contains[<<r, i>>]
                /\ \A c \in CategoryIds :
                      graph'.classified[<<i, c>>] = graph.classified[<<i, c>>]
      ]_vars

\* A run has merged a group and moved a CONTAINS relationship, next to an
\* ingredient in no group that has a relationship or an embedding.
C29_Witness ==
    /\ pc = "done"
    /\ success_count >= 1
    /\ graph.contains # original.contains
    /\ \E i \in graph.ingredients :
          /\ Ungrouped(i)
          /\ (Degree(graph, i) > 0 \/ graph.embedding[i] # NULL)

====
